---- MODULE Spec2Model ----
(***************************************************************************)
(* Model of the routing-rule store of the Caddy dynamic router             *)
(* (RoutingDatabase, database.js): the rule-id encoder generateRuleId, the *)
(* rule lifecycle (createRule, updateRule, deleteRule, pruneExpiredRules)  *)
(* and the best-match resolver findMatchingRule.                           *)
(*                                                                         *)
(* JavaScript strings are sequences of one-character strings, so that      *)
(* concatenation, startsWith, join, JSON.stringify and JSON.parse are      *)
(* computed character by character.  An array of strings is a sequence of  *)
(* such sequences.                                                         *)
(***************************************************************************)
EXTENDS Integers, Sequences, FiniteSets, TLC

VARIABLES
    rows,   \* table routing_rules, in rowid (insertion) order
    now,    \* the clock, in seconds: Math.floor(Date.now() / 1000), strftime('%s','now')
    last,   \* the last call made on the RoutingDatabase and what it returned or threw
    calls   \* the calls under way in the processes that share the database file

vars == <<rows, now, last, calls>>

\* Bounds of the model: the rows the table may hold and the seconds the clock runs.
MaxRules == 2
MaxTime == 2

\* The seconds the clock runs where the resolver is checked.
MaxMatchTime == 1

\* Bounds of the encoder's inputs: the length of a path, the keys of a list.
MaxPathLen == 2
MaxKeys == 2

----------------------------------------------------------------------------
(* JavaScript values *)

\* null and undefined where a string is expected (no string holds a
\* several-character element, so neither is a string).
NULL == <<"null">>
UNDEFINED == <<"undefined">>

\* null where an array of strings is expected (query_params).
NullArr == <<NULL>>

\* !x for a string-or-null value: null, undefined and '' are falsy.
Falsy(x) == x = NULL \/ x = UNDEFINED \/ x = <<>>

\* `${x}` in a template literal.
TemplateStr(x) ==
    IF x = NULL THEN <<"n", "u", "l", "l">>
    ELSE IF x = UNDEFINED THEN <<"u", "n", "d", "e", "f", "i", "n", "e", "d">>
    ELSE x

\* String.prototype.startsWith(c) for a one-character c.
StartsWith(s, c) == Len(s) >= 1 /\ s[1] = c

\* Array.prototype.join(sep).
RECURSIVE Join(_, _)
Join(arr, sep) ==
    IF Len(arr) = 0 THEN <<>>
    ELSE IF Len(arr) = 1 THEN arr[1]
    ELSE arr[1] \o sep \o Join(Tail(arr), sep)

\* Array.prototype.includes(key).
Includes(arr, key) == \E i \in 1..Len(arr) : arr[i] = key

\* JSON.stringify of one string: quoted, with '"' and '\' escaped.
RECURSIVE JSONEscape(_)
JSONEscape(s) ==
    IF Len(s) = 0 THEN <<>>
    ELSE (IF s[1] \in {"\"", "\\"} THEN <<"\\", s[1]>> ELSE <<s[1]>>)
         \o JSONEscape(Tail(s))

JSONQuote(s) == <<"\"">> \o JSONEscape(s) \o <<"\"">>

\* JSON.stringify of an array of strings.
JSONStringify(arr) ==
    <<"[">> \o Join([i \in 1..Len(arr) |-> JSONQuote(arr[i])], <<",">>) \o <<"]">>

\* JSON.parse of the text of an array of strings: t[i] is the next character
\* to read, acc the elements read so far, cur the string being read (inStr).
RECURSIVE JSONParseFrom(_, _, _, _, _)
JSONParseFrom(t, i, acc, cur, inStr) ==
    IF i > Len(t) THEN acc
    ELSE IF inStr
         THEN IF t[i] = "\\" THEN JSONParseFrom(t, i + 2, acc, Append(cur, t[i + 1]), TRUE)
              ELSE IF t[i] = "\"" THEN JSONParseFrom(t, i + 1, Append(acc, cur), <<>>, FALSE)
              ELSE JSONParseFrom(t, i + 1, acc, Append(cur, t[i]), TRUE)
         ELSE IF t[i] = "\"" THEN JSONParseFrom(t, i + 1, acc, <<>>, TRUE)
              ELSE IF t[i] = "]" THEN acc
              ELSE JSONParseFrom(t, i + 1, acc, cur, FALSE)

JSONParse(t) == JSONParseFrom(t, 2, <<>>, <<>>, FALSE)

----------------------------------------------------------------------------
(* generateRuleId *)

\* "Subdomain.Domain part"
SubdomainPart(domain, subdomain) ==
    IF subdomain = NULL \/ subdomain = UNDEFINED \/ subdomain = <<>>
    THEN <<"!", ".">> \o TemplateStr(domain)
    ELSE subdomain \o <<".">> \o TemplateStr(domain)

\* A path part that always adds the separator.
PathPartAlwaysSlash(path) ==
    IF path = NULL \/ path = UNDEFINED \/ path = <<>> THEN <<"/", "!">>
    ELSE <<"/">> \o path

\* "Path part - always add with separator"
PathPart(path) ==
    IF path = NULL \/ path = UNDEFINED \/ path = <<>> THEN <<"/", "!">>
    ELSE IF path = <<"*">> THEN <<"/", "*">>
    ELSE IF ~StartsWith(path, "/") THEN <<"/">> \o path
    ELSE path

\* "Query params part"; queryParams is null (NullArr) or an array of strings,
\* as the API schema admits.
QueryPart(queryParams) ==
    IF queryParams # NullArr
    THEN IF Len(queryParams) = 0 THEN <<"/", "[", "]">>
         ELSE <<"/", "[">> \o Join(queryParams, <<",">>) \o <<"]">>
    ELSE <<>>

generateRuleId(domain, subdomain, path, queryParams) ==
    SubdomainPart(domain, subdomain) \o PathPart(path) \o QueryPart(queryParams)

----------------------------------------------------------------------------
(* The table and the read-only queries *)

\* stmt.get() found no row.
NoRule == [rule_id |-> UNDEFINED]

\* A mapping that takes the empty list for no list.
formatRuleEmptyListAsNull(rule) ==
    IF rule.query_params # NULL /\ JSONParse(rule.query_params) # <<>>
    THEN [rule EXCEPT !.query_params = JSONParse(rule.query_params)]
    ELSE [rule EXCEPT !.query_params = NullArr]

\* formatRule, and the same mapping in getRule, getAllRules, getActiveRules:
\* a truthy query_params text is parsed, SQL NULL stays null.
formatRule(rule) ==
    IF rule.query_params # NULL /\ rule.query_params # <<>>
    THEN [rule EXCEPT !.query_params = JSONParse(rule.query_params)]
    ELSE [rule EXCEPT !.query_params = NullArr]

\* Table t without the rows at the positions in gone.
RECURSIVE Without(_, _, _)
Without(t, gone, i) ==
    IF i > Len(t) THEN <<>>
    ELSE (IF i \in gone THEN <<>> ELSE <<t[i]>>) \o Without(t, gone, i + 1)

\* The positions of table t holding rule_id (at most one: PRIMARY KEY).
RowsWithId(t, ruleId) == {i \in 1..Len(t) : t[i].rule_id = ruleId}

\* SELECT * FROM routing_rules WHERE rule_id = ?, then the parse.
getRule(t, ruleId) ==
    IF RowsWithId(t, ruleId) = {} THEN NoRule
    ELSE formatRule(t[CHOOSE i \in RowsWithId(t, ruleId) : TRUE])

\* A rule kept through the second it expires in.
ExpiredBefore(rule, time) == rule.expires_at < time

\* DELETE FROM routing_rules WHERE expires_at <= ?
ExpiredAt(rule, time) == rule.expires_at <= time

\* A rule counted active through the second it expires in.
ActiveAtOrAtExpiry(rule, time) == rule.expires_at >= time

\* WHERE expires_at > ?
ActiveAt(rule, time) == rule.expires_at > time

\* The orders in which a SELECT may return n rows: every arrangement of the
\* positions 1..n.
Orderings(n) ==
    {o \in [1..n -> 1..n] : \A i \in 1..n, j \in 1..n : o[i] = o[j] => i = j}

\* The same listing ordered oldest first.
OrderByCreatedAtAsc(t, sel) ==
    LET picked == Without(t, (1..Len(t)) \ sel, 1)
        n == Len(picked)
    IN  {[i \in 1..n |-> formatRule(picked[o[i]])] :
            o \in {o \in Orderings(n) :
                     \A i \in 1..n, j \in 1..n :
                        i < j => picked[o[i]].created_at <= picked[o[j]].created_at}}

\* ORDER BY created_at DESC over the rows of t at the positions in sel: the
\* results SQLite may give, rows with the same created_at in either order.
OrderByCreatedAtDesc(t, sel) ==
    LET picked == Without(t, (1..Len(t)) \ sel, 1)
        n == Len(picked)
    IN  {[i \in 1..n |-> formatRule(picked[o[i]])] :
            o \in {o \in Orderings(n) :
                     \A i \in 1..n, j \in 1..n :
                        i < j => picked[o[i]].created_at >= picked[o[j]].created_at}}

\* SELECT * FROM routing_rules ORDER BY created_at DESC, then the parse: the
\* set of the results the call may return.
getAllRules(t) == OrderByCreatedAtDesc(t, 1..Len(t))

\* A listing that forgets the WHERE clause.
getActiveRulesUnfiltered(t, time) == getAllRules(t)

\* SELECT * FROM routing_rules WHERE expires_at > ? ORDER BY created_at DESC.
getActiveRules(t, time) ==
    OrderByCreatedAtDesc(t, {i \in 1..Len(t) : ActiveAt(t[i], time)})

\* The row INSERT writes: created_at and updated_at take their column
\* default, the current time in seconds.
NewRow(ruleId, domain, subdomain, path, queryParamsJson, downstreamUrl, expiresAt, time) ==
    [rule_id |-> ruleId, domain |-> domain, subdomain |-> subdomain, path |-> path,
     query_params |-> queryParamsJson, downstream_url |-> downstreamUrl,
     expires_at |-> expiresAt, created_at |-> time, updated_at |-> time]

\* error.code of the SqliteError that stmt.run throws on a PRIMARY KEY
\* conflict.  The driver (better-sqlite3) is not part of the repository: it
\* reports SQLite's extended result code, SQLITE_CONSTRAINT_PRIMARYKEY; the
\* primary code the catch block compares with is kept as a possible outcome.
PrimaryKeyErrorCodes == {"SQLITE_CONSTRAINT", "SQLITE_CONSTRAINT_PRIMARYKEY"}

\* The catch block of createRule: the message of the error it throws.
CreateCatch(code) ==
    IF code = "SQLITE_CONSTRAINT" THEN "Rule with this ID already exists"
    ELSE "UNIQUE constraint failed: routing_rules.rule_id"

\* A check that only catches null.
DomainIsNull(domain) == domain = NULL

\* if (!domain) throw
DomainMissing(domain) == Falsy(domain)

----------------------------------------------------------------------------
(* The operations that write *)

\* What a call left behind: the method, the message of the error it threw
\* ("" when it returned) and the value it returned.  A prune also says
\* whether the call before it was a prune (again).
Call(op, err, ret) == [op |-> op, err |-> err, ret |-> ret]

\* What a createRule call left behind, with the domain it was given.
CreateCall(domain, err, ret) ==
    [op |-> "createRule", err |-> err, ret |-> ret, domain |-> domain]

createRule(domain, subdomain, path, queryParams, downstreamUrl, expiresAt) ==
    LET ruleId == generateRuleId(domain, subdomain, path, queryParams)
        queryParamsJson ==
            IF queryParams # NullArr THEN JSONStringify(queryParams) ELSE NULL
        row == NewRow(ruleId, domain, subdomain, path, queryParamsJson,
                      downstreamUrl, expiresAt, now)
    IN  /\ UNCHANGED <<now, calls>>
        /\ IF DomainMissing(domain)
           THEN /\ rows' = rows
                /\ last' = CreateCall(domain, "Domain is mandatory", NoRule)
           ELSE IF RowsWithId(rows, ruleId) # {}
           THEN /\ rows' = rows
                /\ \E code \in PrimaryKeyErrorCodes :
                       last' = CreateCall(domain, CreateCatch(code), NoRule)
           ELSE /\ Len(rows) < MaxRules
                /\ rows' = Append(rows, row)
                /\ last' = CreateCall(domain, "", getRule(rows', ruleId))

\* A delete that stops after the first expired row.
PrunedRowsFirstOnly(t, time) ==
    {i \in 1..Len(t) : ExpiredAt(t[i], time) /\ \A j \in 1..(i - 1) : ~ExpiredAt(t[j], time)}

\* The rows DELETE ... WHERE expires_at <= now removes.
PrunedRows(t, time) == {i \in 1..Len(t) : ExpiredAt(t[i], time)}

\* result.changes of the prune.
PruneChanges(t, time) == Cardinality(PrunedRows(t, time))

\* A prune that counts the expired rows and deletes none.
pruneCountOnly ==
    /\ rows' = rows
    /\ last' = [op |-> "pruneExpiredRules", err |-> "", ret |-> PruneChanges(rows, now),
                again |-> last.op = "pruneExpiredRules"]
    /\ UNCHANGED <<now, calls>>

pruneExpiredRules ==
    /\ rows' = Without(rows, PrunedRows(rows, now), 1)
    /\ last' = [op |-> "pruneExpiredRules", err |-> "", ret |-> PruneChanges(rows, now),
                again |-> last.op = "pruneExpiredRules"]
    /\ UNCHANGED <<now, calls>>

\* A delete that reports success whatever result.changes is.
deleteRuleAlwaysTrue(ruleId) ==
    /\ rows' = Without(rows, RowsWithId(rows, ruleId), 1)
    /\ last' = Call("deleteRule", "", TRUE)
    /\ UNCHANGED <<now, calls>>

deleteRule(ruleId) ==
    /\ rows' = Without(rows, RowsWithId(rows, ruleId), 1)
    /\ last' = Call("deleteRule", "", RowsWithId(rows, ruleId) # {})
    /\ UNCHANGED <<now, calls>>

\* A whitelist that lets the domain through.
allowedFieldsWithDomain == {"downstream_url", "expires_at", "domain"}

\* const allowedFields = ['downstream_url', 'expires_at']
allowedFields == {"downstream_url", "expires_at"}

\* An update that sets every column the patch names.
UpdatedRowAnyField(rule, updates, time) ==
    [f \in DOMAIN rule |->
        IF f \in DOMAIN updates THEN updates[f]
        ELSE IF f = "updated_at" THEN time
        ELSE rule[f]]

\* The row after UPDATE ... SET <the whitelisted fields of updates>,
\* updated_at = strftime('%s','now').  updates is a function from keys to values.
UpdatedRow(rule, updates, time) ==
    [f \in DOMAIN rule |->
        IF f \in allowedFields /\ f \in DOMAIN updates THEN updates[f]
        ELSE IF f = "updated_at" THEN time
        ELSE rule[f]]

\* An update that does not look at result.changes.
updateRuleNoChangesCheck(ruleId, updates) ==
    /\ UNCHANGED <<now, calls>>
    /\ IF DOMAIN updates \cap allowedFields = {}
       THEN /\ rows' = rows
            /\ last' = Call("updateRule", "No valid fields to update", NoRule)
       ELSE /\ rows' = [i \in 1..Len(rows) |->
                           IF rows[i].rule_id = ruleId
                           THEN UpdatedRow(rows[i], updates, now) ELSE rows[i]]
            /\ last' = Call("updateRule", "", getRule(rows', ruleId))

updateRule(ruleId, updates) ==
    /\ UNCHANGED <<now, calls>>
    /\ IF DOMAIN updates \cap allowedFields = {}
       THEN /\ rows' = rows
            /\ last' = Call("updateRule", "No valid fields to update", NoRule)
       ELSE IF RowsWithId(rows, ruleId) = {}
       THEN /\ rows' = rows
            /\ last' = Call("updateRule", "Rule not found", NoRule)
       ELSE /\ rows' = [i \in 1..Len(rows) |->
                           IF rows[i].rule_id = ruleId
                           THEN UpdatedRow(rows[i], updates, now) ELSE rows[i]]
            /\ last' = Call("updateRule", "", getRule(rows', ruleId))

\* A second passes (the model's clock stops at limit).
tick(limit) ==
    /\ now < limit
    /\ now' = now + 1
    /\ last' = Call("tick", "", now + 1)
    /\ UNCHANGED <<rows, calls>>


----------------------------------------------------------------------------
(* findMatchingRule *)

\* findMatchingRule found nothing: it returns null.
NullRule == [rule_id |-> NULL]

\* `continue`: the rule is left out of matches.
Skip == 0

\* SELECT * FROM routing_rules WHERE expires_at > ? AND domain = ?
\* (no ORDER BY: the rows come in table order).
RECURSIVE SelectActiveByDomain(_, _, _)
SelectActiveByDomain(t, time, domain) ==
    IF Len(t) = 0 THEN <<>>
    ELSE (IF ActiveAt(t[1], time) /\ t[1].domain = domain THEN <<t[1]>> ELSE <<>>)
         \o SelectActiveByDomain(Tail(t), time, domain)

\* "Check subdomain": what it adds to the score, or Skip.
SubdomainScore(rule, subdomain) ==
    IF rule.subdomain = <<"*">> THEN 1
    ELSE IF rule.subdomain = <<"!">> \/ Falsy(rule.subdomain)
         THEN (IF ~Falsy(subdomain) THEN Skip ELSE 10)
    ELSE IF rule.subdomain = subdomain THEN 10
    ELSE Skip

\* A path check that lets a rule without a path through for every request.
PathScoreNoneMatchesAll(rule, path) ==
    IF rule.path = <<"*">> THEN 1
    ELSE IF rule.path = <<"!">> \/ Falsy(rule.path) THEN 10
    ELSE IF rule.path = path THEN 10
    ELSE Skip

\* "Check path": what it adds to the score, or Skip.
PathScore(rule, path) ==
    IF rule.path = <<"*">> THEN 1
    ELSE IF rule.path = <<"!">> \/ Falsy(rule.path)
         THEN (IF ~Falsy(path) /\ path # <<"/">> /\ path # <<"!">> THEN Skip ELSE 10)
    ELSE IF rule.path = path THEN 10
    ELSE Skip

\* A query-policy mismatch that only ranks the rule lowest.
QueryScoreLowPriority(rule, requestParamKeys) ==
    IF rule.query_params = NULL THEN 5
    ELSE IF \A key \in requestParamKeys : Includes(JSONParse(rule.query_params), key)
         THEN 10 ELSE 1

\* "Check query params": what it adds to the score, or Skip when
\* queryParamsMatch stays false.  requestParamKeys is Object.keys(queryParams),
\* as a set.
QueryScore(rule, requestParamKeys) ==
    IF rule.query_params = NULL THEN 5
    ELSE LET allowedParams == JSONParse(rule.query_params)
         IN  IF Len(allowedParams) = 0
             THEN (IF requestParamKeys = {} THEN 10 ELSE Skip)
             ELSE (IF \A key \in requestParamKeys : Includes(allowedParams, key)
                   THEN 10 ELSE Skip)

\* The body of the loop for one rule: the entries it pushes on matches.
MatchEntry(rule, subdomain, path, requestParamKeys) ==
    LET s == SubdomainScore(rule, subdomain)
        p == PathScore(rule, path)
        q == QueryScore(rule, requestParamKeys)
    IN  IF s = Skip \/ p = Skip \/ q = Skip THEN <<>>
        ELSE <<[rule |-> rule, score |-> s + p + q]>>

RECURSIVE Matches(_, _, _, _)
Matches(allRules, subdomain, path, requestParamKeys) ==
    IF Len(allRules) = 0 THEN <<>>
    ELSE MatchEntry(allRules[1], subdomain, path, requestParamKeys)
         \o Matches(Tail(allRules), subdomain, path, requestParamKeys)

\* The comparator the other way round: lowest score first.
CompareAscending(a, b) == a.score - b.score

\* The comparator (a, b) => b.score - a.score.
Compare(a, b) == b.score - a.score

\* Array.prototype.sort(Compare), a stable sort: m is put into the sorted
\* sequence after every element that does not compare greater than it.
RECURSIVE InsertSorted(_, _)
InsertSorted(sorted, m) ==
    IF Len(sorted) = 0 THEN <<m>>
    ELSE IF Compare(sorted[1], m) > 0 THEN <<m>> \o sorted
    ELSE <<sorted[1]>> \o InsertSorted(Tail(sorted), m)

RECURSIVE Sort(_, _)
Sort(matches, sorted) ==
    IF Len(matches) = 0 THEN sorted
    ELSE Sort(Tail(matches), InsertSorted(sorted, matches[1]))

findMatchingRule(t, time, domain, subdomain, path, requestParamKeys) ==
    LET allRules == SelectActiveByDomain(t, time, domain)
        matches == Matches(allRules, subdomain, path, requestParamKeys)
    IN  IF Len(matches) > 0
        THEN formatRule(Sort(matches, <<>>)[1].rule)
        ELSE NullRule

----------------------------------------------------------------------------
(* The lifecycle of the store *)

Domains == {<<"d">>}
MissingDomains == {NULL, UNDEFINED, <<>>}
Subdomains == {NULL, <<"a">>}
Paths == {<<"/", "p">>}
QueryParams == {NullArr}
Urls == {<<"u">>, <<"v">>}
Expiries == 1..MaxTime

\* Every rule_id the inputs can make.
RuleIds ==
    {generateRuleId(d, s, p, q) : d \in Domains, s \in Subdomains, p \in Paths, q \in QueryParams}

\* The patches of updateRule: whitelisted fields, another field, none, and
\* whitelisted fields next to fields that are not.
Updates ==
    {[downstream_url |-> u] : u \in Urls}
    \cup {[expires_at |-> e] : e \in Expiries}
    \cup {[domain |-> <<"x">>], << >>}
    \cup {[downstream_url |-> <<"v">>, expires_at |-> 1],
          [downstream_url |-> <<"v">>, rule_id |-> <<"x">>, domain |-> <<"x">>,
           subdomain |-> <<"x">>, path |-> <<"x">>, query_params |-> <<"[", "]">>,
           created_at |-> MaxTime + 1]}

\* The processes that open the database file: the cron service, the resolver
\* and two callers of createRule.  No call is under way in any of them.
Procs == {"cron", "resolver", "api1", "api2"}
Idle == [pc |-> "idle"]
NoCalls == [p \in Procs |-> Idle]

Init ==
    /\ rows = <<>>
    /\ now = 0
    /\ last = Call("init", "", 0)
    /\ calls = NoCalls

CreateRule ==
    \E domain \in Domains \cup MissingDomains, subdomain \in Subdomains, path \in Paths,
       queryParams \in QueryParams, downstreamUrl \in Urls, expiresAt \in Expiries :
        createRule(domain, subdomain, path, queryParams, downstreamUrl, expiresAt)

UpdateRule == \E ruleId \in RuleIds, updates \in Updates : updateRule(ruleId, updates)

DeleteRule == \E ruleId \in RuleIds : deleteRule(ruleId)

PruneExpiredRules == pruneExpiredRules

Tick == tick(MaxTime)

Next == CreateRule \/ UpdateRule \/ DeleteRule \/ PruneExpiredRules \/ Tick

Spec == Init /\ [][Next]_vars

\* The lifecycle with the cron service running: it prunes once at startup and
\* again on every tick of its schedule, so a prune that would remove a row
\* does not wait forever.
SpecCron == Spec /\ WF_vars(PruneExpiredRules)


----------------------------------------------------------------------------
(* The resolver over stores of rules of every selector kind *)

MatchDomains == {<<"d">>, <<"e">>}
MatchSubdomains == {NULL, <<"*">>, <<"a">>}
MatchPaths == {NULL, <<"*">>, <<"/", "p">>}
MatchQueryParams == {NullArr, <<>>, <<<<"k">>>>}
MatchUrls == {<<"u">>}

\* The requests: [domain, subdomain, path, keys], keys being the keys of the
\* request's query object.
ReqDomains == MatchDomains
ReqSubdomains == {NULL, <<"a">>, <<"b">>}
ReqPaths == {NULL, <<"/">>, <<"/", "p">>, <<"!">>}
ReqKeys == {{}, {<<"k">>}, {<<"j">>}, {<<"k">>, <<"j">>}}
Requests ==
    [domain : ReqDomains, subdomain : ReqSubdomains, path : ReqPaths, keys : ReqKeys]

\* findMatchingRule called with request req in the current state.
Resolve(req) == findMatchingRule(rows, now, req.domain, req.subdomain, req.path, req.keys)

MatchExpiries == 1..(MaxMatchTime + 1)

CreateMatchRule ==
    \E domain \in MatchDomains, subdomain \in MatchSubdomains, path \in MatchPaths,
       queryParams \in MatchQueryParams, downstreamUrl \in MatchUrls,
       expiresAt \in MatchExpiries :
        createRule(domain, subdomain, path, queryParams, downstreamUrl, expiresAt)

TickMatch == tick(MaxMatchTime)

NextMatch == CreateMatchRule \/ PruneExpiredRules \/ TickMatch

SpecMatch == Init /\ [][NextMatch]_vars

----------------------------------------------------------------------------
(* Creation with every kind of query_params *)

\* null, the empty list, a key, two keys of which one needs escaping in JSON,
\* the same two keys the other way round, a key twice.
ListQueryParams ==
    {NullArr, <<>>, <<<<"k">>>>, << <<"\"", "\\">>, <<"j">> >>,
     << <<"j">>, <<"\"", "\\">> >>, << <<"k">>, <<"k">> >>}

CreateListRule ==
    \E domain \in Domains, subdomain \in Subdomains, path \in Paths,
       queryParams \in ListQueryParams, downstreamUrl \in MatchUrls, expiresAt \in Expiries :
        createRule(domain, subdomain, path, queryParams, downstreamUrl, expiresAt)

NextCreate == CreateListRule

SpecCreate == Init /\ [][NextCreate]_vars

----------------------------------------------------------------------------
(* The cron service pruning while the resolver resolves *)

\* The requests the resolver serves here.
RaceRequests ==
    {req \in Requests : req.domain \in Domains /\ req.path \in Paths /\ req.keys = {}}

\* const now = Math.floor(Date.now() / 1000) of findMatchingRule: the call
\* has read the clock and not yet the table.  store keeps the table as it
\* was when the call began.
findMatchingRuleReadTime(req) ==
    /\ calls["resolver"].pc \in {"idle", "done"}
    /\ calls' = [calls EXCEPT !["resolver"] =
                    [pc |-> "select", time |-> now, req |-> req, store |-> rows]]
    /\ UNCHANGED <<rows, now, last>>

\* stmt.all(now, domain) and the scoring of the rows it returned.
findMatchingRuleSelect ==
    LET call == calls["resolver"]
        found == findMatchingRule(rows, call.time, call.req.domain, call.req.subdomain,
                                  call.req.path, call.req.keys)
    IN  /\ call.pc = "select"
        /\ calls' = [calls EXCEPT !["resolver"] =
                        [pc |-> "done", time |-> call.time, req |-> call.req,
                         store |-> call.store, ret |-> found]]
        /\ last' = Call("findMatchingRule", "", found)
        /\ UNCHANGED <<rows, now>>

\* const now = Math.floor(Date.now() / 1000) of pruneExpiredRules.
pruneReadTime ==
    /\ calls["cron"].pc = "idle"
    /\ calls' = [calls EXCEPT !["cron"] = [pc |-> "delete", time |-> now]]
    /\ UNCHANGED <<rows, now, last>>

\* stmt.run(now) of pruneExpiredRules, with the time it read.
pruneDelete ==
    LET time == calls["cron"].time
    IN  /\ calls["cron"].pc = "delete"
        /\ rows' = Without(rows, PrunedRows(rows, time), 1)
        /\ last' = [op |-> "pruneExpiredRules", err |-> "", ret |-> PruneChanges(rows, time),
                    again |-> last.op = "pruneExpiredRules"]
        /\ calls' = [calls EXCEPT !["cron"] = Idle]
        /\ UNCHANGED now

\* Rules are created while the resolver is between two calls.
CreateBeforeResolve ==
    /\ calls["resolver"].pc \in {"idle", "done"}
    /\ \E domain \in Domains, subdomain \in Subdomains, path \in Paths,
          queryParams \in QueryParams, downstreamUrl \in MatchUrls,
          expiresAt \in MatchExpiries :
            createRule(domain, subdomain, path, queryParams, downstreamUrl, expiresAt)

ResolveReadTime == \E req \in RaceRequests : findMatchingRuleReadTime(req)

ResolveSelect == findMatchingRuleSelect

PruneReadTime == pruneReadTime

PruneDelete == pruneDelete

NextPruneRace ==
    \/ CreateBeforeResolve
    \/ ResolveReadTime
    \/ ResolveSelect
    \/ PruneReadTime
    \/ PruneDelete
    \/ TickMatch

SpecPruneRace == Init /\ [][NextPruneRace]_vars

----------------------------------------------------------------------------
(* Two callers of createRule on one database file *)

Creators == {"api1", "api2"}

\* createRule up to its INSERT: the domain is there, the id and the JSON text
\* are made.  fresh says whether the table held no rule with the id then.
createRuleBegin(p, domain, subdomain, path, queryParams, downstreamUrl, expiresAt) ==
    LET ruleId == generateRuleId(domain, subdomain, path, queryParams)
    IN  /\ calls[p].pc \in {"idle", "done"}
        /\ ~DomainMissing(domain)
        /\ calls' = [calls EXCEPT ![p] =
                        [pc |-> "insert", rule_id |-> ruleId, domain |-> domain,
                         subdomain |-> subdomain, path |-> path,
                         query_params |-> IF queryParams # NullArr
                                          THEN JSONStringify(queryParams) ELSE NULL,
                         downstream_url |-> downstreamUrl, expires_at |-> expiresAt,
                         fresh |-> RowsWithId(rows, ruleId) = {}]]
        /\ UNCHANGED <<rows, now, last>>

\* stmt.run(...): the INSERT, one step of the database, and the catch block
\* when the PRIMARY KEY refuses it.
createRuleInsert(p) ==
    LET call == calls[p]
    IN  /\ call.pc = "insert"
        /\ UNCHANGED now
        /\ IF RowsWithId(rows, call.rule_id) # {}
           THEN /\ rows' = rows
                /\ \E code \in PrimaryKeyErrorCodes :
                    /\ calls' = [calls EXCEPT ![p] =
                                    [call EXCEPT !.pc = "done"] @@
                                    [err |-> CreateCatch(code), ret |-> NoRule]]
                    /\ last' = CreateCall(call.domain, CreateCatch(code), NoRule)
           ELSE /\ Len(rows) < MaxRules
                /\ rows' = Append(rows, NewRow(call.rule_id, call.domain, call.subdomain,
                                               call.path, call.query_params,
                                               call.downstream_url, call.expires_at, now))
                /\ calls' = [calls EXCEPT ![p] = [call EXCEPT !.pc = "get"]]
                /\ UNCHANGED last

\* return this.getRule(ruleId)
createRuleGet(p) ==
    LET call == calls[p]
        found == getRule(rows, call.rule_id)
    IN  /\ call.pc = "get"
        /\ calls' = [calls EXCEPT ![p] =
                        [call EXCEPT !.pc = "done"] @@ [err |-> "", ret |-> found]]
        /\ last' = CreateCall(call.domain, "", found)
        /\ UNCHANGED <<rows, now>>

CreateBegin ==
    \E p \in Creators, domain \in Domains, subdomain \in Subdomains, path \in Paths,
       queryParams \in QueryParams, downstreamUrl \in Urls, expiresAt \in Expiries :
        createRuleBegin(p, domain, subdomain, path, queryParams, downstreamUrl, expiresAt)

CreateInsert == \E p \in Creators : createRuleInsert(p)

CreateGet == \E p \in Creators : createRuleGet(p)

NextCreateRace == CreateBegin \/ CreateInsert \/ CreateGet

SpecCreateRace == Init /\ [][NextCreateRace]_vars

----------------------------------------------------------------------------
(* The resolver over rules without a path *)

\* The ways to store no path (null, '', '!'), and the wildcard.
NonePaths == {NULL, <<>>, <<"!">>, <<"*">>}

\* Requests with every kind of path: absent, empty, the root, the none
\* marker, a path, the wildcard character.
NonePathRequests ==
    [domain : Domains, subdomain : Subdomains,
     path : {NULL, <<>>, <<"/">>, <<"!">>, <<"/", "p">>, <<"*">>}, keys : {{}}]

CreateNonePathRule ==
    \E domain \in Domains, subdomain \in Subdomains, path \in NonePaths,
       queryParams \in QueryParams, downstreamUrl \in MatchUrls,
       expiresAt \in MatchExpiries :
        createRule(domain, subdomain, path, queryParams, downstreamUrl, expiresAt)

NextNonePath == CreateNonePathRule \/ PruneExpiredRules \/ TickMatch

SpecNonePath == Init /\ [][NextNonePath]_vars

----------------------------------------------------------------------------
(* The lifecycle of rules with and without key lists *)

\* null and a list of two keys of which one needs escaping in JSON.
IdQueryParams == {NullArr, << <<"\"", "\\">>, <<"j">> >>}

\* A rule already expired when it is created, and one that is not.
IdExpiries == {0, 1}

IdRuleIds ==
    {generateRuleId(d, s, p, q) :
        d \in Domains, s \in Subdomains, p \in Paths, q \in IdQueryParams}

\* Patches: a whitelisted field, whitelisted fields next to fields that are
\* not, a field that is not.
IdUpdates ==
    {[downstream_url |-> <<"v">>], [expires_at |-> 0],
     [downstream_url |-> <<"v">>, rule_id |-> <<"x">>, domain |-> <<"x">>,
      subdomain |-> <<"x">>, path |-> <<"x">>, query_params |-> <<"[", "]">>],
     [path |-> <<"x">>]}

CreateIdRule ==
    \E domain \in Domains, subdomain \in Subdomains, path \in Paths,
       queryParams \in IdQueryParams, downstreamUrl \in Urls, expiresAt \in IdExpiries :
        createRule(domain, subdomain, path, queryParams, downstreamUrl, expiresAt)

UpdateIdRule == \E ruleId \in IdRuleIds, updates \in IdUpdates : updateRule(ruleId, updates)

DeleteIdRule == \E ruleId \in IdRuleIds : deleteRule(ruleId)

NextIds == CreateIdRule \/ UpdateIdRule \/ DeleteIdRule \/ PruneExpiredRules

SpecIds == Init /\ [][NextIds]_vars

----------------------------------------------------------------------------
(* The encoder alone *)

\* The strings over the characters of chars of length at most n.
RECURSIVE StringsUpTo(_, _)
StringsUpTo(chars, n) ==
    IF n = 0 THEN {<<>>}
    ELSE LET shorter == StringsUpTo(chars, n - 1)
         IN  shorter \cup {Append(s, c) : s \in shorter, c \in chars}

\* The arrays of elements of elems of length at most n.
RECURSIVE ArraysUpTo(_, _)
ArraysUpTo(elems, n) ==
    IF n = 0 THEN {<<>>}
    ELSE LET shorter == ArraysUpTo(elems, n - 1)
         IN  shorter \cup {Append(a, e) : a \in shorter, e \in elems}

CodecDomains == {<<"d">>} \cup MissingDomains
CodecSubdomains == {NULL, UNDEFINED, <<>>, <<"*">>, <<"!">>, <<"a">>}
CodecPaths ==
    {NULL, UNDEFINED, <<"*">>, <<"!">>, <<"/", "p", "/", "[", "k", "]">>, <<"/", "p", "/", "[", "]">>}
    \cup StringsUpTo({"/", "p"}, MaxPathLen)
CodecKeys == {<<"k">>, <<"j">>, <<"k", ",", "j">>}
CodecQueryParams == {NullArr} \cup ArraysUpTo(CodecKeys, MaxKeys)

\* The encoder's inputs.
CodecInputs ==
    [domain : CodecDomains, subdomain : CodecSubdomains, path : CodecPaths,
     queryParams : CodecQueryParams]

\* A caller about to encode input last.ret.
InitCodec ==
    /\ rows = <<>>
    /\ now = 0
    /\ \E in \in CodecInputs : last = Call("input", "", in)
    /\ calls = NoCalls

\* The call of generateRuleId on the input: it returns, it never throws.
GenerateRuleId ==
    /\ last.op = "input"
    /\ last' = [op |-> "generateRuleId", err |-> "", in |-> last.ret,
                ret |-> generateRuleId(last.ret.domain, last.ret.subdomain,
                                       last.ret.path, last.ret.queryParams)]
    /\ UNCHANGED <<rows, now, calls>>

NextCodec == GenerateRuleId

SpecCodec == InitCodec /\ [][NextCodec]_vars


----------------------------------------------------------------------------
(* The resolver's contract: C1, C2, C3 *)

\* The selector a stored subdomain or path stands for.
IsAny(v) == v = <<"*">>
IsNone(v) == v = <<"!">> \/ Falsy(v)

\* A request with no subdomain; a rootless request: its path is absent,
\* empty, the root, or the none marker (which paths count is C21's matter).
NoSubdomain(req) == Falsy(req.subdomain)
Rootless(req) == Falsy(req.path) \/ req.path = <<"/">> \/ req.path = <<"!">>

\* The score the contract gives a stored rule on each dimension, 0 when the
\* dimension excludes it.
ContractSubdomain(rule, req) ==
    IF IsAny(rule.subdomain) THEN 1
    ELSE IF IsNone(rule.subdomain) THEN (IF NoSubdomain(req) THEN 10 ELSE 0)
    ELSE IF rule.subdomain = req.subdomain THEN 10 ELSE 0

ContractPath(rule, req) ==
    IF IsAny(rule.path) THEN 1
    ELSE IF IsNone(rule.path) THEN (IF Rootless(req) THEN 10 ELSE 0)
    ELSE IF rule.path = req.path THEN 10 ELSE 0

\* The keys of an allow-list, as a set.
KeySet(list) == {list[i] : i \in 1..Len(list)}

ContractQuery(rule, req) ==
    LET policy == formatRule(rule).query_params
    IN  IF policy = NullArr THEN 5
        ELSE IF req.keys \subseteq KeySet(policy) THEN 10 ELSE 0

\* The positions of the candidates that survive request req, and their score.
Survivors(req) ==
    {i \in 1..Len(rows) :
        /\ rows[i].domain = req.domain
        /\ rows[i].expires_at > now
        /\ ContractSubdomain(rows[i], req) # 0
        /\ ContractPath(rows[i], req) # 0
        /\ ContractQuery(rows[i], req) # 0}

TotalScore(i, req) ==
    ContractSubdomain(rows[i], req) + ContractPath(rows[i], req) + ContractQuery(rows[i], req)

\* C1: for every store and every request, findMatchingRule returns a surviving
\* candidate whose total score (subdomain 10 or 1, path 10 or 1, query policy
\* 5 or 10) is the maximum over the surviving candidates, and it returns no
\* rule exactly when no candidate survives.
C1_ReturnsMaximalSurvivor ==
    \A req \in Requests :
        LET found == Resolve(req)
        IN  IF Survivors(req) = {} THEN found = NullRule
            ELSE \E i \in Survivors(req) :
                    /\ found = formatRule(rows[i])
                    /\ \A j \in Survivors(req) : TotalScore(i, req) >= TotalScore(j, req)

\* Two candidates survive a request, the less specific one first in the table.
C1_Witness ==
    \E req \in Requests :
        \E i \in Survivors(req), j \in Survivors(req) :
            /\ j < i
            /\ TotalScore(i, req) > TotalScore(j, req)
            /\ Resolve(req) = formatRule(rows[i])

\* C2: in every reachable state, the rule findMatchingRule returns has the
\* request's domain and an expires_at strictly greater than the current time.
C2_SameDomainAndActive ==
    \A req \in Requests :
        LET found == Resolve(req)
        IN  found # NullRule => (found.domain = req.domain /\ found.expires_at > now)

\* The store holds a rule of each domain whose selectors match a request; the
\* request's own expires at this very second and nothing is returned, while
\* the same request on the other domain gets that domain's rule.
C2_Witness ==
    /\ Len(rows) = 2
    /\ rows[1].domain # rows[2].domain
    /\ rows[1].expires_at = now
    /\ rows[2].expires_at > now
    /\ \E req \in Requests :
        /\ rows[1].domain = req.domain
        /\ MatchEntry(rows[1], req.subdomain, req.path, req.keys) # <<>>
        /\ MatchEntry(rows[2], req.subdomain, req.path, req.keys) # <<>>
        /\ Resolve(req) = NullRule
        /\ Resolve([req EXCEPT !.domain = rows[2].domain]) = formatRule(rows[2])

\* C3: a query-policy mismatch is a hard rejection: the rule returned never
\* has an allow-list that misses a key of the request (an empty list admits
\* no key), and a rule whose list holds every key of the request, with its
\* other selectors matching, is admitted: some rule is returned.
C3_QueryPolicyHardRejection ==
    \A req \in Requests :
        LET found == Resolve(req)
        IN  /\ (found # NullRule /\ found.query_params # NullArr)
                => \A key \in req.keys : Includes(found.query_params, key)
            /\ \A i \in 1..Len(rows) :
                (/\ rows[i].domain = req.domain
                 /\ rows[i].expires_at > now
                 /\ ContractSubdomain(rows[i], req) # 0
                 /\ ContractPath(rows[i], req) # 0
                 /\ rows[i].query_params # NULL
                 /\ req.keys \subseteq KeySet(JSONParse(rows[i].query_params)))
                => found # NullRule

\* The only candidate matches on subdomain and path with the top score but
\* its list misses a key of the request (once a non-empty list, once the
\* empty list), and nothing is returned; a strict subset of a list is admitted.
C3_Witness ==
    /\ Len(rows) = 2
    /\ \E req \in Requests, i \in 1..Len(rows) :
        /\ rows[i].domain = req.domain /\ rows[i].expires_at > now
        /\ ContractSubdomain(rows[i], req) = 10 /\ ContractPath(rows[i], req) = 10
        /\ formatRule(rows[i]).query_params = <<<<"k">>>>
        /\ req.keys = {<<"k">>, <<"j">>}
        /\ Resolve(req) = NullRule
    /\ \E req \in Requests, i \in 1..Len(rows) :
        /\ rows[i].domain = req.domain /\ rows[i].expires_at > now
        /\ ContractSubdomain(rows[i], req) = 10 /\ ContractPath(rows[i], req) = 10
        /\ formatRule(rows[i]).query_params = <<>>
        /\ req.keys = {<<"k">>}
        /\ Resolve(req) = NullRule
    /\ \E req \in Requests :
        /\ req.keys = {}
        /\ Resolve(req) # NullRule
        /\ Resolve(req).query_params = <<<<"k">>>>


----------------------------------------------------------------------------
(* The encoder's contract: C4, C5, C8 *)

\* The call made and its input.
Encoded == last.op = "generateRuleId"

\* The parts of the canonical grammar.
GrammarSubdomain(subdomain) ==
    IF subdomain = <<"*">> THEN <<"*">>
    ELSE IF Falsy(subdomain) THEN <<"!">>
    ELSE subdomain

GrammarPath(path) ==
    IF path = <<"*">> THEN <<"/", "*">>
    ELSE IF Falsy(path) THEN <<"/", "!">>
    ELSE <<"/">> \o (IF path[1] = "/" THEN Tail(path) ELSE path)

GrammarQuery(queryParams) ==
    IF queryParams = NullArr THEN <<>>
    ELSE IF queryParams = <<>> THEN <<"/", "[", "]">>
    ELSE <<"/", "[">> \o Join(queryParams, <<",">>) \o <<"]">>

\* C4: for a given domain, generateRuleId follows the canonical grammar: the
\* subdomain part ('*', '!' or the literal), '.', the domain, the path part
\* ('/*', '/!' or the literal path with one leading '/', none added to a path
\* that has one), and the query part (none for null, '/[]' for the empty
\* list, '/[' keys joined by ',' in the given order ']').
C4_CanonicalGrammar ==
    (Encoded /\ ~Falsy(last.in.domain)) =>
        last.ret = GrammarSubdomain(last.in.subdomain) \o <<".">> \o last.in.domain
                   \o GrammarPath(last.in.path) \o GrammarQuery(last.in.queryParams)

\* A literal subdomain, a path without its leading '/', a list of two keys.
C4_Witness ==
    /\ Encoded
    /\ last.in = [domain |-> <<"d">>, subdomain |-> <<"a">>, path |-> <<"p">>,
                  queryParams |-> << <<"k">>, <<"j">> >>]
    /\ last.ret = <<"a", ".", "d", "/", "p", "/", "[", "k", ",", "j", "]">>

\* The selector of an argument and the policy of a list, as the data model
\* has them: None for an absent value (and for '!', which the resolver reads
\* as None), a list as the set of its keys.
SelectorOf(v) == IF IsNone(v) THEN NULL ELSE v
PolicyOf(queryParams) ==
    IF queryParams = NullArr THEN [all |-> TRUE, keys |-> {}]
    ELSE [all |-> FALSE, keys |-> KeySet(queryParams)]

SameTuple(a, b) ==
    /\ SelectorOf(a.subdomain) = SelectorOf(b.subdomain)
    /\ SelectorOf(a.path) = SelectorOf(b.path)
    /\ PolicyOf(a.queryParams) = PolicyOf(b.queryParams)

\* C5: for a fixed domain generateRuleId is injective: two distinct
\* (subdomain selector, path selector, query policy) tuples never get the
\* same id.
C5_Injective ==
    (Encoded /\ ~Falsy(last.in.domain)) =>
        \A other \in CodecInputs :
            (other.domain = last.in.domain /\ ~SameTuple(other, last.in))
                => generateRuleId(other.domain, other.subdomain, other.path,
                                  other.queryParams) # last.ret

\* C8: generateRuleId called with an empty domain fails (InvalidInput)
\* instead of returning an id.
C8_EmptyDomainRejected ==
    (Encoded /\ last.in.domain = <<>>) => last.err # ""


----------------------------------------------------------------------------
(* Creation and pruning: C6, C7, C9, C10 *)

\* C6: a second createRule with the (domain, subdomain, path, query_params)
\* of a stored rule fails with 'Rule with this ID already exists', whatever
\* its target and expires_at, and leaves the store unchanged.
C6_DuplicateRejected ==
    [][\A domain \in Domains, subdomain \in Subdomains, path \in Paths,
          queryParams \in QueryParams, downstreamUrl \in Urls, expiresAt \in Expiries :
            (/\ RowsWithId(rows, generateRuleId(domain, subdomain, path, queryParams)) # {}
             /\ createRule(domain, subdomain, path, queryParams, downstreamUrl, expiresAt))
            => (last'.err = "Rule with this ID already exists" /\ rows' = rows)]_vars

\* C7: createRule with a missing domain (null, undefined, '') fails with
\* 'Domain is mandatory' before anything is written: the store is unchanged
\* and holds no rule built from a missing domain.
C7_MissingDomainRejected ==
    [][(last'.op = "createRule" /\ last'.domain \in MissingDomains)
        => (/\ last'.err = "Domain is mandatory"
            /\ rows' = rows
            /\ \A i \in 1..Len(rows') : rows'[i].domain \notin MissingDomains)]_vars

\* A createRule without a domain was refused on a store that holds rules.
C7_Witness ==
    /\ last.op = "createRule"
    /\ last.domain = <<>>
    /\ last.err = "Domain is mandatory"
    /\ Len(rows) = 2

\* C9: pruneExpiredRules at time now removes exactly the rules with
\* expires_at <= now, leaves every rule with expires_at > now in the store,
\* all fields and the order unchanged, and returns the number removed.
C9_PruneExact ==
    [][pruneExpiredRules =>
        (/\ \A i \in 1..Len(rows) :
                rows[i].expires_at > now => \E j \in 1..Len(rows') : rows'[j] = rows[i]
         /\ \A j \in 1..Len(rows') :
                rows'[j].expires_at > now /\ \E i \in 1..Len(rows) : rows[i] = rows'[j]
         /\ last'.ret = Cardinality({i \in 1..Len(rows) : rows[i].expires_at <= now})
         /\ last'.ret = Len(rows) - Len(rows'))]_vars

\* A prune removed the rule that expires at this very second and kept the
\* rule that expires later.
C9_Witness ==
    /\ last.op = "pruneExpiredRules"
    /\ last.ret = 1
    /\ Len(rows) = 1
    /\ rows[1].expires_at = now + 1

\* C10: a prune that follows a prune, with no other call and no second passed
\* in between, returns 0 and leaves the store unchanged.
C10_PruneIdempotent ==
    [][(last.op = "pruneExpiredRules" /\ last'.op = "pruneExpiredRules")
        => (last'.ret = 0 /\ rows' = rows)]_vars

\* A second prune in a row returned 0 on a store that holds a rule.
C10_Witness ==
    /\ last.op = "pruneExpiredRules"
    /\ last.again
    /\ last.ret = 0
    /\ Len(rows) >= 1


----------------------------------------------------------------------------
(* Expiry and the read-only queries: C11 *)

\* The rules of a listing, as a set.
Listed(list) == {list[i] : i \in 1..Len(list)}

\* An expired rule is hidden from the resolver and the active listing and is
\* still shown by the full listing and by getRule.
ExpiredHiddenNotGone ==
    \A i \in 1..Len(rows) :
        rows[i].expires_at <= now =>
            /\ \A req \in Requests : Resolve(req).rule_id # rows[i].rule_id
            /\ \A list \in getActiveRules(rows, now) :
                    \A r \in Listed(list) : r.rule_id # rows[i].rule_id
            /\ \A list \in getAllRules(rows) : formatRule(rows[i]) \in Listed(list)
            /\ getRule(rows, rows[i].rule_id) = formatRule(rows[i])

\* An expired rule leaves the store only by a prune or by a delete that
\* removes its id alone; a second passing leaves the table as it was.
ExpiredLeavesByPruneOrDelete ==
    /\ \A i \in 1..Len(rows) :
            (rows[i].expires_at <= now /\ RowsWithId(rows', rows[i].rule_id) = {})
                => \/ last'.op = "pruneExpiredRules"
                   \/ /\ last'.op = "deleteRule"
                      /\ rows' = Without(rows, {i}, 1)
    /\ now' # now => rows' = rows

\* C11: in every reachable state a rule whose expires_at is not later than
\* the current time is absent from the results of findMatchingRule and
\* getActiveRules, and is still returned by getAllRules and getRule; it leaves
\* the store only by a prune or a delete of its id, never by time passing.
C11_ExpiredHiddenUntilRemoved ==
    []ExpiredHiddenNotGone /\ [][ExpiredLeavesByPruneOrDelete]_vars

\* The store holds an expired rule that a request would match were it
\* active, next to an active one; a second has passed since it was created.
C11_Witness ==
    /\ Len(rows) = 2
    /\ now = 1
    /\ rows[1].created_at = 0
    /\ rows[1].expires_at = 1
    /\ rows[2].expires_at > now
    /\ \E req \in Requests :
            /\ req.domain = rows[1].domain
            /\ MatchEntry(rows[1], req.subdomain, req.path, req.keys) # <<>>
            /\ Resolve(req) = NullRule
    /\ \E list \in getActiveRules(rows, now) : Len(list) = 1
    /\ \E list \in getAllRules(rows) : Len(list) = 2


----------------------------------------------------------------------------
(* Creation and lookup: C12 *)

\* C12: the rule a successful createRule returns equals the rule getRule
\* returns for its id right after, and it carries the domain, subdomain,
\* path, query_params (null, the empty list or the key list, as given),
\* downstream_url and expires_at the call was given.
C12_CreateGetRoundTrip ==
    [][(last'.op = "createRule" /\ last'.err = "") =>
       \A domain \in Domains, subdomain \in Subdomains, path \in Paths,
          queryParams \in ListQueryParams, downstreamUrl \in MatchUrls,
          expiresAt \in Expiries :
            (/\ createRule(domain, subdomain, path, queryParams, downstreamUrl, expiresAt)
             /\ last'.err = "")
            => (/\ last'.ret = getRule(rows', last'.ret.rule_id)
                /\ last'.ret.domain = domain
                /\ last'.ret.subdomain = subdomain
                /\ last'.ret.path = path
                /\ last'.ret.query_params = queryParams
                /\ last'.ret.downstream_url = downstreamUrl
                /\ last'.ret.expires_at = expiresAt)]_vars

\* Rules were created with the empty list and with a list whose key holds a
\* quote and a backslash, the second one just now.
C12_Witness ==
    /\ Len(rows) = 2
    /\ formatRule(rows[1]).query_params = <<>>
    /\ last.op = "createRule"
    /\ last.err = ""
    /\ last.ret = getRule(rows, rows[2].rule_id)
    /\ last.ret.query_params = << <<"\"", "\\">>, <<"j">> >>


----------------------------------------------------------------------------
(* Updates and deletes: C13, C14, C15 *)

\* The fields no update may change, and the fields of the whitelist.
ImmutableFields == {"rule_id", "domain", "subdomain", "path", "query_params", "created_at"}
MutableFields == {"downstream_url", "expires_at"}

\* C13: a successful updateRule(ruleId, updates) changes, on the rule ruleId
\* only, the whitelisted fields the patch holds (to the patch's values) and
\* updated_at (to the current time); rule_id, domain, subdomain, path,
\* query_params and created_at stay even if the patch names them, and every
\* other rule of the store is unchanged.
C13_UpdateFrame ==
    [][(last'.op = "updateRule" /\ last'.err = "") =>
        \A ruleId \in RuleIds, updates \in Updates :
            updateRule(ruleId, updates) =>
                /\ Len(rows') = Len(rows)
                /\ \A i \in 1..Len(rows) :
                    IF rows[i].rule_id = ruleId
                    THEN /\ \A f \in ImmutableFields : rows'[i][f] = rows[i][f]
                         /\ \A f \in MutableFields :
                                rows'[i][f] = IF f \in DOMAIN updates THEN updates[f]
                                              ELSE rows[i][f]
                         /\ rows'[i].updated_at = now
                    ELSE rows'[i] = rows[i]]_vars

\* An update a second after the creation moved the target of the first of
\* two rules: updated_at is later than created_at, the other rule is as it
\* was created.
C13_Witness ==
    /\ last.op = "updateRule"
    /\ last.err = ""
    /\ Len(rows) = 2
    /\ last.ret = formatRule(rows[1])
    /\ rows[1].downstream_url = <<"v">>
    /\ rows[1].updated_at > rows[1].created_at
    /\ rows[1].domain = <<"d">>
    /\ rows[2].updated_at = rows[2].created_at

\* C14 as claimed: updateRule fails with 'Rule not found' whenever the id is
\* absent from the store and with 'No valid fields to update' whenever the
\* patch holds no whitelisted field, the store unchanged in both cases.
C14_NotFoundWheneverAbsent ==
    [][last'.op = "updateRule" =>
        \A ruleId \in RuleIds, updates \in Updates :
            updateRule(ruleId, updates) =>
                /\ RowsWithId(rows, ruleId) = {}
                        => (last'.err = "Rule not found" /\ rows' = rows)
                /\ DOMAIN updates \cap MutableFields = {}
                        => (last'.err = "No valid fields to update" /\ rows' = rows)]_vars

\* C14, amended: updateRule fails with 'No valid fields to update' when the
\* patch holds no whitelisted field, whether the id is in the store or not,
\* and with 'Rule not found' when the patch holds a whitelisted field and the
\* id is absent from the store; the store is unchanged in both cases.
C14_UpdateErrors ==
    [][last'.op = "updateRule" =>
        \A ruleId \in RuleIds, updates \in Updates :
            updateRule(ruleId, updates) =>
                /\ DOMAIN updates \cap MutableFields = {}
                        => (last'.err = "No valid fields to update" /\ rows' = rows)
                /\ (DOMAIN updates \cap MutableFields # {} /\ RowsWithId(rows, ruleId) = {})
                        => (last'.err = "Rule not found" /\ rows' = rows)]_vars

\* An update of an id that is not in the store, which holds another rule,
\* was refused.
C14_Witness ==
    /\ last.op = "updateRule"
    /\ last.err = "Rule not found"
    /\ Len(rows) = 1

\* C15: deleteRule(ruleId) returns true exactly when a rule with that id was
\* in the store; right after it getRule(ruleId) returns no rule and
\* findMatchingRule returns it for no request, every other rule is in the
\* store unchanged and in the same order, and a delete of an absent id
\* returns false and leaves the store as it was.
C15_DeleteExact ==
    [][last'.op = "deleteRule" =>
        \A ruleId \in RuleIds :
            deleteRule(ruleId) =>
                /\ last'.ret = (\E i \in 1..Len(rows) : rows[i].rule_id = ruleId)
                /\ getRule(rows', ruleId) = NoRule
                /\ \A req \in Requests :
                       findMatchingRule(rows', now', req.domain, req.subdomain,
                                        req.path, req.keys).rule_id # ruleId
                /\ rows' = SelectSeq(rows, LAMBDA r : r.rule_id # ruleId)
                /\ last'.ret = FALSE => rows' = rows]_vars

\* A delete returned true and left the other rule of the store, which a
\* request still resolves to.
C15_Witness ==
    /\ last.op = "deleteRule"
    /\ last.ret = TRUE
    /\ Len(rows) = 1
    /\ \E req \in Requests : Resolve(req) = formatRule(rows[1])


----------------------------------------------------------------------------
(* The full listing: C16 *)

\* Every result getAllRules may give holds each stored rule once, expired or not.
ListsEveryRule(list) ==
    /\ Len(list) = Len(rows)
    /\ Listed(list) = {formatRule(rows[i]) : i \in 1..Len(rows)}

\* C16 as claimed: getAllRules returns every stored rule, expired or not,
\* a rule created earlier before a rule created later.
C16_OldestFirst ==
    /\ getAllRules(rows) # {}
    /\ \A list \in getAllRules(rows) :
        /\ ListsEveryRule(list)
        /\ \A i \in 1..Len(list), j \in 1..Len(list) :
                list[i].created_at < list[j].created_at => i < j

\* C16, amended: getAllRules returns every stored rule, expired or not,
\* newest first: a rule created in a later second comes before a rule
\* created in an earlier second.
C16_NewestFirst ==
    /\ getAllRules(rows) # {}
    /\ \A list \in getAllRules(rows) :
        /\ ListsEveryRule(list)
        /\ \A i \in 1..Len(list), j \in 1..Len(list) :
                list[i].created_at > list[j].created_at => i < j

\* The store holds an expired rule and a rule created a second later; the
\* listing gives the later one first and the expired one after it.
C16_Witness ==
    /\ Len(rows) = 2
    /\ rows[1].created_at < rows[2].created_at
    /\ rows[1].expires_at <= now
    /\ getAllRules(rows) = {<<formatRule(rows[2]), formatRule(rows[1])>>}


----------------------------------------------------------------------------
(* Ties between candidates: C17 *)

\* The surviving candidates of request req with the maximum total score.
TopSurvivors(req) ==
    {i \in Survivors(req) : \A j \in Survivors(req) : TotalScore(i, req) >= TotalScore(j, req)}

\* The table with its rows in order o.
Reordered(t, o) == [i \in 1..Len(t) |-> t[o[i]]]

\* C17: when several surviving candidates share the maximum total score, the
\* rule findMatchingRule returns is fixed by a secondary key, the most
\* recently created first: it is no older than any other top candidate, and
\* a store holding the same rules in another order gives the same result
\* for the same request.
C17_TieBreakDeterministic ==
    \A req \in Requests :
        /\ \A j \in TopSurvivors(req) : Resolve(req).created_at >= rows[j].created_at
        /\ \A o \in Orderings(Len(rows)) :
                findMatchingRule(Reordered(rows, o), now, req.domain, req.subdomain,
                                 req.path, req.keys) = Resolve(req)


----------------------------------------------------------------------------
(* Concurrent calls: C18 *)

\* C18: a prune that runs while a resolve is under way never removes a rule
\* the resolve would have matched as active at the time the resolve read:
\* what findMatchingRule returns equals what it returns, for that time and
\* request, on the store as it was without the concurrent prune.
C18_PruneInvisibleToResolve ==
    LET call == calls["resolver"]
    IN  call.pc = "done" =>
            call.ret = findMatchingRule(call.store, call.time, call.req.domain,
                                        call.req.subdomain, call.req.path, call.req.keys)

\* C19: when two createRule calls for the same (domain, subdomain, path,
\* query_params) run concurrently, both begun while the store held no such
\* rule, exactly one succeeds and the other fails with 'Rule with this ID
\* already exists'; the stored rule is the one the winner returned, with the
\* winner's downstream_url and expires_at.
C19_OneWinnerOneDuplicate ==
    \A w \in Creators, l \in Creators :
        (/\ w # l
         /\ calls[w].pc = "done" /\ calls[l].pc = "done"
         /\ calls[w].fresh /\ calls[l].fresh
         /\ calls[w].rule_id = calls[l].rule_id
         /\ calls[w].err = "")
        => /\ calls[l].err = "Rule with this ID already exists"
           /\ getRule(rows, calls[w].rule_id) = calls[w].ret
           /\ calls[w].ret.downstream_url = calls[w].downstream_url
           /\ calls[w].ret.expires_at = calls[w].expires_at


----------------------------------------------------------------------------
(* The cron service: C20 *)

\* The store holds the rule ruleId and its expires_at has passed.
ExpiredInStore(ruleId) ==
    \E i \in 1..Len(rows) : rows[i].rule_id = ruleId /\ rows[i].expires_at <= now

\* C20: with the cron service pruning again and again, every rule whose
\* expires_at has passed is eventually out of the store, unless an update has
\* moved its expires_at into the future (or a delete removed it) first.
C20_ExpiredEventuallyRemoved ==
    \A ruleId \in RuleIds : ExpiredInStore(ruleId) ~> ~ExpiredInStore(ruleId)

\* At the end of the clock a prune removed both rules of the store, expired.
C20_Witness ==
    /\ last.op = "pruneExpiredRules"
    /\ last.ret = 2
    /\ rows = <<>>
    /\ now = MaxTime


----------------------------------------------------------------------------
(* Rules without a path: C21 *)

\* An active rule of the request's domain, stored without a path, that the
\* subdomain check and the query check let through.
NonePathCandidate(i, req) ==
    /\ IsNone(rows[i].path)
    /\ rows[i].domain = req.domain
    /\ rows[i].expires_at > now
    /\ SubdomainScore(rows[i], req.subdomain) # Skip
    /\ QueryScore(rows[i], req.keys) # Skip

\* Candidate i survives exactly the requests whose path is in paths, with 10
\* for the path; alone in the store, it is what findMatchingRule returns for
\* exactly those requests.
NonePathSurvivesExactly(paths) ==
    \A i \in 1..Len(rows), req \in NonePathRequests :
        NonePathCandidate(i, req) =>
            LET entry == MatchEntry(rows[i], req.subdomain, req.path, req.keys)
            IN  /\ entry # <<>> <=> req.path \in paths
                /\ entry # <<>> =>
                        entry[1].score = SubdomainScore(rows[i], req.subdomain) + 10
                                         + QueryScore(rows[i], req.keys)
                /\ Len(rows) = 1 =>
                        (Resolve(req) = formatRule(rows[i]) <=> req.path \in paths)

\* C21 as claimed: a rule stored with path null, '' or '!' survives the path
\* check exactly when the request path is absent, empty or the root '/', and
\* then gets 10 for it.
C21_NonePathRootOnly == NonePathSurvivesExactly({NULL, <<>>, <<"/">>})

\* C21, amended: a rule stored with path null, '' or '!' survives the path
\* check exactly when the request path is absent, empty, the root '/' or the
\* none marker '!', and then gets 10 for it.
C21_NonePathRootOrMarker == NonePathSurvivesExactly({NULL, <<>>, <<"/">>, <<"!">>})

\* The only rule of the store has path '!': it is returned for the request
\* paths '/' and '!' and not for '/p'.
C21_Witness ==
    /\ Len(rows) = 1
    /\ rows[1].path = <<"!">>
    /\ \E req \in NonePathRequests :
        /\ NonePathCandidate(1, req)
        /\ Resolve([req EXCEPT !.path = <<"/">>]) = formatRule(rows[1])
        /\ Resolve([req EXCEPT !.path = <<"!">>]) = formatRule(rows[1])
        /\ Resolve([req EXCEPT !.path = <<"/", "p">>]) = NullRule


----------------------------------------------------------------------------
(* Key lists as sets: C22 *)

\* The (domain, subdomain, path, query_params) a stored rule was created with.
TupleOfRow(rule) ==
    [domain |-> rule.domain, subdomain |-> rule.subdomain, path |-> rule.path,
     queryParams |-> formatRule(rule).query_params]

\* The same domain, selectors and query policy, a key list taken as a set.
SameSemanticTuple(a, b) == a.domain = b.domain /\ SameTuple(a, b)

\* No two rules of the store have the same semantic tuple.
NoTwoRulesOfOneTuple ==
    \A i \in 1..Len(rows), j \in 1..Len(rows) :
        i # j => ~SameSemanticTuple(TupleOfRow(rows[i]), TupleOfRow(rows[j]))

\* A createRule whose tuple a stored rule already has fails and leaves the
\* store as it was.
SameTupleCreationFails ==
    last'.op = "createRule" =>
        \A domain \in Domains, subdomain \in Subdomains, path \in Paths,
           queryParams \in ListQueryParams, downstreamUrl \in MatchUrls,
           expiresAt \in Expiries :
            (/\ createRule(domain, subdomain, path, queryParams, downstreamUrl, expiresAt)
             /\ \E i \in 1..Len(rows) :
                    SameSemanticTuple(TupleOfRow(rows[i]),
                                      [domain |-> domain, subdomain |-> subdomain,
                                       path |-> path, queryParams |-> queryParams]))
            => (last'.err # "" /\ rows' = rows)

\* C22: key lists are compared as sets when duplicates are detected: with a
\* rule of an allow-list in the store, a createRule of the same domain,
\* subdomain and path whose list holds the same set of keys, in another order
\* or with a key repeated, fails and the store is unchanged; the store never
\* holds two rules with the same semantic tuple.
C22_KeyListsAsSets ==
    []NoTwoRulesOfOneTuple /\ [][SameTupleCreationFails]_vars


----------------------------------------------------------------------------
(* The ids of the store: C23 *)

\* C23: in every reachable state, after any creates, updates, deletes and
\* prunes, the rule ids of the store are pairwise distinct and the id of each
\* stored rule is generateRuleId of that rule's current domain, subdomain,
\* path and query_params.
C23_IdsDistinctAndDerived ==
    /\ \A i \in 1..Len(rows), j \in 1..Len(rows) :
            rows[i].rule_id = rows[j].rule_id => i = j
    /\ \A i \in 1..Len(rows) :
            rows[i].rule_id = generateRuleId(rows[i].domain, rows[i].subdomain, rows[i].path,
                                             formatRule(rows[i]).query_params)

\* An update whose patch named a new target just changed a rule with a key
\* list, next to a rule without one.
C23_Witness ==
    /\ Len(rows) = 2
    /\ last.op = "updateRule"
    /\ last.err = ""
    /\ last.ret.downstream_url = <<"v">>
    /\ last.ret.query_params = << <<"\"", "\\">>, <<"j">> >>
    /\ \E i \in 1..2 : rows[i].query_params = NULL


====
